---- MODULE Spec2Model ----
(***************************************************************************)
(* Model of main.py: the keyword scorer simple_stress_model and the request *)
(* handlers assess_text, get_history and test_database.                     *)
(*                                                                         *)
(* Strings are sequences of one-character strings.  Scores and weights are  *)
(* integers counted in hundredths (Scale), the unit round(x, 2) keeps.      *)
(* A fraction is a pair <<numerator, denominator>> with a positive          *)
(* denominator.                                                             *)
(***************************************************************************)
EXTENDS Integers, Sequences, FiniteSets, TLC

\* ---- bounds of the model ----
MaxFrags == 2
MaxPads == 7
PadUnit == 33
NumReqs == 2

\* hundredths per unit of score: round(score * length_penalty, 2)
Scale == 100

None == [kind |-> "None"]

\* ---- the keywords, spelled out character by character ----
kw_stress == <<"s","t","r","e","s","s">>
kw_stressed == <<"s","t","r","e","s","s","e","d">>
kw_overwhelmed == <<"o","v","e","r","w","h","e","l","m","e","d">>
kw_pressure == <<"p","r","e","s","s","u","r","e">>
kw_tired == <<"t","i","r","e","d">>
kw_exhausted == <<"e","x","h","a","u","s","t","e","d">>
kw_burnout == <<"b","u","r","n","o","u","t">>
kw_workload == <<"w","o","r","k","l","o","a","d">>
kw_anxious == <<"a","n","x","i","o","u","s">>
kw_worry == <<"w","o","r","r","y">>
kw_panic == <<"p","a","n","i","c">>
kw_nervous == <<"n","e","r","v","o","u","s">>
kw_fear == <<"f","e","a","r">>
kw_uneasy == <<"u","n","e","a","s","y">>
kw_sad == <<"s","a","d">>
kw_down == <<"d","o","w","n">>
kw_depressed == <<"d","e","p","r","e","s","s","e","d">>
kw_hopeless == <<"h","o","p","e","l","e","s","s">>
kw_insomnia == <<"i","n","s","o","m","n","i","a">>
kw_sleep == <<"s","l","e","e","p">>
kw_headache == <<"h","e","a","d","a","c","h","e">>

UpperChars == <<"A","B","C","D","E","F","G","H","I","J","K","L","M","N","O","P","Q","R","S","T","U","V","W","X","Y","Z">>
LowerChars == <<"a","b","c","d","e","f","g","h","i","j","k","l","m","n","o","p","q","r","s","t","u","v","w","x","y","z">>

\* ---- texts and fragments of text used as inputs ----
TextStressed == <<"I"," ","f","e","e","l"," ","s","o"," ","s","t","r","e","s","s","e","d"," ","a","n","d"," ","o","v","e","r","w","h","e","l","m","e","d",","," ","I"," ","a","m"," ","e","x","h","a","u","s","t","e","d">>
TextNormalDay == <<"n","o","t","h","i","n","g"," ","u","n","u","s","u","a","l"," ","t","o","d","a","y",","," ","j","u","s","t"," ","a"," ","n","o","r","m","a","l"," ","d","a","y">>
TextShort == <<"s","o"," ","t","i","r","e","d","!">>
TextSoStressed == <<"S","o"," ","S","T","R","E","S","S","E","D">>
TextFineDay == <<"a"," ","f","i","n","e"," ","d","a","y">>
FragStress == <<"s","t","r","e","s","s">>
FragEd == <<"e","d"," ">>
FragSleepUpper == <<"S","L","E","E","P"," ">>
FragWorry == <<"W","o","r","r","y",","," ","w","o","r","r","y",";"," ","P","a","n","i","c",","," ","b","u","r","n","o","u","t","."," ">>

VARIABLES
    sText, sPc, sLocals, sResult,    \* one call of simple_stress_model on its own
    database,                        \* what "from database import ..." finds
    docs,                            \* the "assessments" collection
    pc, reqText, result, response,   \* the POST /api/assess requests
    persisted,                       \* per request: what the persistence attempt did
    scorerCalls, createCalls,        \* per request: calls made on its behalf
    getResp,                         \* the latest GET /api/history or GET /test exchange
    now                              \* the clock datetime.utcnow() reads

\* ---- fractions ----
RatLess(a, b) == a[1] * b[2] < b[1] * a[2]
RatEq(a, b) == a[1] * b[2] = b[1] * a[2]
\* Python's max(a, b) and min(a, b): the first argument wins unless the
\* second is strictly greater (strictly smaller)
RatMax(a, b) == IF RatLess(a, b) THEN b ELSE a
RatMin(a, b) == IF RatLess(b, a) THEN b ELSE a

\* ---- the three keyword dictionaries, in declaration order ----
stress_kw ==
    << [kw |-> kw_stress, w |-> 200], [kw |-> kw_stressed, w |-> 200],
       [kw |-> kw_overwhelmed, w |-> 200], [kw |-> kw_pressure, w |-> 150],
       [kw |-> kw_tired, w |-> 100], [kw |-> kw_exhausted, w |-> 150],
       [kw |-> kw_burnout, w |-> 200], [kw |-> kw_workload, w |-> 100] >>
anxiety_kw ==
    << [kw |-> kw_anxious, w |-> 200], [kw |-> kw_worry, w |-> 150],
       [kw |-> kw_panic, w |-> 200], [kw |-> kw_nervous, w |-> 100],
       [kw |-> kw_fear, w |-> 150], [kw |-> kw_uneasy, w |-> 100] >>
mood_kw ==
    << [kw |-> kw_sad, w |-> 150], [kw |-> kw_down, w |-> 100],
       [kw |-> kw_depressed, w |-> 200], [kw |-> kw_hopeless, w |-> 200],
       [kw |-> kw_insomnia, w |-> 150], [kw |-> kw_sleep, w |-> 50],
       [kw |-> kw_headache, w |-> 50] >>

\* d[k] = w on an insertion-ordered dict: an existing key keeps its place
DictSet(d, k, w) ==
    IF \E i \in 1..Len(d) : d[i].kw = k
    THEN [i \in 1..Len(d) |-> IF d[i].kw = k THEN [kw |-> k, w |-> w] ELSE d[i]]
    ELSE Append(d, [kw |-> k, w |-> w])

RECURSIVE DictUpdate(_, _, _)
DictUpdate(d, e, i) ==
    IF i > Len(e) THEN d ELSE DictUpdate(DictSet(d, e[i].kw, e[i].w), e, i + 1)

\* the merge with its operands swapped
DictMergeSwapped(a, b) == DictUpdate(b, a, 1)
\* {**a, **b}
DictMerge(a, b) == DictUpdate(a, b, 1)

\* {**stress_kw, **anxiety_kw, **mood_kw}.items()
Lexicon == DictMerge(DictMerge(stress_kw, anxiety_kw), mood_kw)

\* ---- str.lower() on the ASCII letters ----
LowerChar(c) ==
    IF \E i \in 1..Len(UpperChars) : UpperChars[i] = c
    THEN LowerChars[CHOOSE i \in 1..Len(UpperChars) : UpperChars[i] = c]
    ELSE c

LowerIdentity(text) == text
lower(text) == [i \in 1..Len(text) |-> LowerChar(text[i])]

IsLetter(c) == \E i \in 1..Len(LowerChars) : LowerChars[i] = c

\* a tokenising match: kw occurs in t as a whole word
WholeWordIn(kw, t) ==
    \E i \in 1..(Len(t) - Len(kw) + 1) :
        /\ \A j \in 1..Len(kw) : t[i + j - 1] = kw[j]
        /\ (i = 1 \/ ~IsLetter(t[i - 1]))
        /\ (i + Len(kw) > Len(t) \/ ~IsLetter(t[i + Len(kw)]))

\* kw in text_l: kw occurs in t as a contiguous substring
SubstringIn(kw, t) ==
    \E i \in 1..(Len(t) - Len(kw) + 1) :
        \A j \in 1..Len(kw) : t[i + j - 1] = kw[j]

\* the loop over the merged lexicon, from entry i on
RECURSIVE ScanLexicon(_, _, _, _, _)
ScanLexicon(items, i, text_l, matched, score) ==
    IF i > Len(items)
    THEN [matched |-> matched, score |-> score]
    ELSE IF SubstringIn(items[i].kw, text_l)
         THEN ScanLexicon(items, i + 1, text_l,
                          Append(matched, items[i].kw), score + items[i].w)
         ELSE ScanLexicon(items, i + 1, text_l, matched, score)

\* 100 / len(text), without the + 1
length_penalty_no_plus_one(n) ==
    RatMin(<<1, 1>>, RatMax(<<1, 2>>, <<100, IF n = 0 THEN 1 ELSE n>>))
\* min(1.0, max(0.5, 100 / (len(text) + 1))), n = len(text)
length_penalty(n) == RatMin(<<1, 1>>, RatMax(<<1, 2>>, <<100, n + 1>>))

\* the products score * length_penalty that are exact ties at the third
\* decimal and whose IEEE double lies above the tie, as <<score, denominator>>
FloatAboveTie == {<<550, 176>>, <<2750, 176>>, <<3000, 192>>}

\* round(x) to whole units, read in hundredths
round0(score, pen) ==
    LET n == score * pen[1]
        d == pen[2] * Scale
    IN  (IF 2 * (n % d) > d \/ (2 * (n % d) = d /\ (n \div d) % 2 = 1)
         THEN (n \div d) + 1 ELSE n \div d) * Scale
\* round(score * length_penalty, 2), in hundredths: to nearest, ties to even
\* on the double's exact value
round2(score, pen) ==
    LET n == score * pen[1]
        d == pen[2]
        q == n \div d
        r == n % d
    IN  IF 2 * r < d THEN q
        ELSE IF 2 * r > d THEN q + 1
        ELSE IF <<score, d>> \in FloatAboveTie THEN q + 1
        ELSE IF q % 2 = 0 THEN q ELSE q + 1

\* the chain with score >= 0 in place of score > 0
LabelLowInclusive(score) ==
    IF score >= 6 * Scale THEN "High"
    ELSE IF score >= 3 * Scale THEN "Moderate"
    ELSE IF score >= 0 THEN "Low"
    ELSE "Minimal"
\* the bands with the boundaries 3 and 6 in the lower band
LabelExclusive(score) ==
    IF score > 6 * Scale THEN "High"
    ELSE IF score > 3 * Scale THEN "Moderate"
    ELSE IF score > 0 THEN "Low"
    ELSE "Minimal"
\* the if / elif chain on the final score
Label(score) ==
    IF score >= 6 * Scale THEN "High"
    ELSE IF score >= 3 * Scale THEN "Moderate"
    ELSE IF score > 0 THEN "Low"
    ELSE "Minimal"

\* a list kept across calls: it starts as whatever an earlier call matched
matched_shared ==
    IF \E r \in DOMAIN result : result[r] # None
    THEN result[CHOOSE r \in DOMAIN result : result[r] # None].keywords
    ELSE <<>>
\* matched = []
matched_init == <<>>
\* score = 0.0
score_init == 0

\* the locals of simple_stress_model at its return statement
ScorerLocals(text) ==
    LET text_l == lower(text)
        scan == ScanLexicon(Lexicon, 1, text_l, matched_init, score_init)
        pen == length_penalty(Len(text))
    IN  [text_l |-> text_l, matched |-> scan.matched, raw |-> scan.score,
         length_penalty |-> pen, score |-> round2(scan.score, pen)]

simple_stress_model(text, utcnow) ==
    LET l == ScorerLocals(text)
    IN  [score |-> l.score, label |-> Label(l.score), keywords |-> l.matched,
         created_at |-> utcnow, id |-> None]

\* ---- the scorer on its own ----
Frags == {FragStress, FragEd, FragSleepUpper, FragWorry, TextStressed, TextNormalDay}
FragSeqs == UNION {[1..n -> Frags] : n \in 0..MaxFrags}

RECURSIVE Concat(_)
Concat(fs) == IF fs = <<>> THEN <<>> ELSE Head(fs) \o Concat(Tail(fs))

Pad(k) == [i \in 1..(k * PadUnit) |-> "."]

ScoreTexts == {Concat(fs) \o Pad(k) : fs \in FragSeqs, k \in 0..MaxPads}

Score ==
    /\ sPc = "call"
    /\ sLocals' = ScorerLocals(sText)
    /\ sResult' = simple_stress_model(sText, now)
    /\ sPc' = "returned"
    /\ UNCHANGED <<sText, database, docs, pc, reqText, result, response,
                   persisted, scorerCalls, createCalls, getResp, now>>

\* ---- the request handlers ----
Reqs == 1..NumReqs
MainTexts == {TextShort, TextSoStressed, TextFineDay}

\* Field(..., min_length=10)
min_length == 10
ValidNonEmpty(text) == Len(text) >= 1
ValidRequest(text) == Len(text) >= min_length

\* str(x) of an ObjectId or of None; a Python string value is [str |-> ...]
str(x) == IF x = None THEN [str |-> "None"] ELSE [str |-> ToString(x.oid)]

\* a returned object that is not a dict
NonDict == [nondict |-> TRUE]
IsDict(d) == "nondict" \notin DOMAIN d

\* create_document(collection, doc) of the database module, when it succeeds
create_document(collection, doc) ==
    LET oid == [oid |-> Len(collection) + 1]
    IN  [stored |-> Append(collection, [k \in DOMAIN doc \cup {"_id"} |->
                                          IF k = "_id" THEN oid ELSE doc[k]]),
         doc_id |-> str(oid)]

\* get_documents(collection, {}, limit) of the database module, when it
\* succeeds: the limit most recent documents, newest first
get_documents(collection, limit) ==
    LET n == IF limit < Len(collection) THEN limit ELSE Len(collection)
    IN  [i \in 1..n |-> collection[Len(collection) + 1 - i]]

\* db.list_collection_names()
list_collection_names == IF docs = <<>> THEN <<>> ELSE <<"assessments">>

\* the document assess_text hands to create_document
AssessmentDoc(text, res) ==
    [text |-> text, score |-> res.score, label |-> res.label,
     keywords |-> res.keywords, created_at |-> res.created_at]

\* assess_text without the try / except: a failure fails the request
assess_text_no_except(res, outcome, doc_id) ==
    IF outcome = "created"
    THEN [status |-> 200, body |-> [res EXCEPT !.id = doc_id]]
    ELSE [status |-> 500]
\* what assess_text returns, given how the persistence attempt ended
assess_text_return(res, outcome, doc_id) ==
    IF outcome = "created"
    THEN [status |-> 200, body |-> [res EXCEPT !.id = doc_id]]
    ELSE [status |-> 200, body |-> res]

\* clean(doc) inside get_history
clean(doc) ==
    [k \in (DOMAIN doc \ {"_id"}) \cup {"id"} |->
        IF k = "id"
        THEN str(IF "_id" \in DOMAIN doc THEN doc._id ELSE None)
        ELSE doc[k]]

RECURSIVE CleanDicts(_)
CleanDicts(ds) ==
    IF ds = <<>> THEN <<>>
    ELSE IF IsDict(Head(ds)) THEN <<clean(Head(ds))>> \o CleanDicts(Tail(ds))
    ELSE CleanDicts(Tail(ds))

\* a get_history that skips the documents it cannot normalise
get_history_partial(outcome, returned) ==
    IF outcome # "returned" THEN [status |-> 200, body |-> <<>>]
    ELSE [status |-> 200, body |-> CleanDicts(returned)]
\* what get_history returns, given how the query ended
get_history_return(outcome, returned) ==
    IF outcome # "returned" THEN [status |-> 200, body |-> <<>>]
    ELSE IF \E i \in 1..Len(returned) : ~IsDict(returned[i])
         THEN [status |-> 200, body |-> <<>>]
         ELSE [status |-> 200, body |-> [i \in 1..Len(returned) |-> clean(returned[i])]]

\* limit: int = 10
default_limit == 10
Limits == {1, default_limit}

\* the response dict of test_database
test_database_return(listRaises, urlSet, nameSet) ==
    LET r0 == [backend |-> "Running", database |-> "Not Available",
               connection_status |-> "Not Connected", collections |-> <<>>]
        r1 == IF database = "absent"
              THEN [r0 EXCEPT !.database = "Database module not found"]
              ELSE IF database = "uninitialised"
              THEN [r0 EXCEPT !.database = "Available but not initialized"]
              ELSE IF listRaises
              THEN [r0 EXCEPT !.connection_status = "Connected",
                              !.database = "Connected but Error"]
              ELSE [r0 EXCEPT !.connection_status = "Connected",
                              !.collections = SubSeq(list_collection_names, 1,
                                  IF Len(list_collection_names) < 10
                                  THEN Len(list_collection_names) ELSE 10),
                              !.database = "Connected & Working"]
    IN  [k \in DOMAIN r1 \cup {"database_url", "database_name"} |->
            IF k = "database_url" THEN (IF urlSet THEN "Set" ELSE "Not Set")
            ELSE IF k = "database_name" THEN (IF nameSet THEN "Set" ELSE "Not Set")
            ELSE r1[k]]

scoreVars == <<sText, sPc, sLocals, sResult>>

\* a POST /api/assess arrives and its body is validated
post_assess(r, text) ==
    /\ pc[r] = "idle"
    /\ reqText' = [reqText EXCEPT ![r] = text]
    /\ IF ValidRequest(text)
       THEN /\ pc' = [pc EXCEPT ![r] = "handler"]
            /\ UNCHANGED response
       ELSE /\ pc' = [pc EXCEPT ![r] = "rejected"]
            /\ response' = [response EXCEPT ![r] = [status |-> 422]]
    /\ UNCHANGED <<scoreVars, database, docs, result, persisted,
                   scorerCalls, createCalls, getResp, now>>

\* result = simple_stress_model(req.text); the clock has moved on by the
\* next reading
assess_text_score(r) ==
    /\ pc[r] = "handler"
    /\ result' = [result EXCEPT ![r] = simple_stress_model(reqText[r], now)]
    /\ now' = now + 1
    /\ scorerCalls' = [scorerCalls EXCEPT ![r] = @ + 1]
    /\ pc' = [pc EXCEPT ![r] = "scored"]
    /\ UNCHANGED <<scoreVars, database, docs, reqText, response, persisted,
                   createCalls, getResp>>

\* the try block around create_document, and the return
assess_text_persist(r, raises) ==
    /\ pc[r] = "scored"
    /\ raises => database = "connected"
    /\ LET outcome == IF database = "absent" THEN "ImportError"
                      ELSE IF database = "uninitialised" \/ raises THEN "raised"
                      ELSE "created"
           made == create_document(docs, AssessmentDoc(reqText[r], result[r]))
           doc_id == IF outcome = "created" THEN made.doc_id ELSE None
           resp == assess_text_return(result[r], outcome, doc_id)
       IN  /\ docs' = IF outcome = "created" THEN made.stored ELSE docs
           /\ createCalls' = [createCalls EXCEPT ![r] =
                                 IF outcome = "ImportError" THEN @ ELSE @ + 1]
           /\ persisted' = [persisted EXCEPT ![r] =
                               [outcome |-> outcome, doc_id |-> doc_id]]
           /\ response' = [response EXCEPT ![r] = resp]
           /\ result' = [result EXCEPT ![r] =
                            IF resp.status = 200 THEN resp.body ELSE @]
    /\ pc' = [pc EXCEPT ![r] = "done"]
    /\ UNCHANGED <<scoreVars, database, reqText, scorerCalls, getResp, now>>

\* GET /api/history
get_history(limit, raises, bad) ==
    /\ raises => database = "connected"
    /\ LET outcome == IF database = "absent" THEN "ImportError"
                      ELSE IF database = "uninitialised" \/ raises THEN "raised"
                      ELSE "returned"
           found == get_documents(docs, limit)
           returned == IF outcome # "returned" THEN <<>>
                       ELSE [i \in 1..Len(found) |->
                                IF i = bad THEN NonDict ELSE found[i]]
           resp == get_history_return(outcome, returned)
       IN  /\ bad \in 0..Len(found)
           /\ getResp' = [endpoint |-> "history", outcome |-> outcome,
                          returned |-> returned, response |-> resp]
    /\ UNCHANGED <<scoreVars, database, docs, pc, reqText, result, response,
                   persisted, scorerCalls, createCalls, now>>

\* GET /test
test_database(listRaises, urlSet, nameSet) ==
    /\ listRaises => database = "connected"
    /\ getResp' = [endpoint |-> "test",
                   response |-> [status |-> 200,
                                 body |-> test_database_return(listRaises, urlSet, nameSet)]]
    /\ UNCHANGED <<scoreVars, database, docs, pc, reqText, result, response,
                   persisted, scorerCalls, createCalls, now>>

handlerInit ==
    /\ docs = <<>>
    /\ pc = [r \in Reqs |-> "idle"]
    /\ reqText = [r \in Reqs |-> <<>>]
    /\ result = [r \in Reqs |-> None]
    /\ response = [r \in Reqs |-> None]
    /\ persisted = [r \in Reqs |-> None]
    /\ scorerCalls = [r \in Reqs |-> 0]
    /\ createCalls = [r \in Reqs |-> 0]
    /\ getResp = None
    /\ now = 0

Init ==
    /\ sText = <<>>
    /\ sPc = "unused"
    /\ sLocals = None
    /\ sResult = None
    /\ database \in {"absent", "uninitialised", "connected"}
    /\ handlerInit

Next ==
    \/ \E r \in Reqs, text \in MainTexts : post_assess(r, text)
    \/ \E r \in Reqs : assess_text_score(r)
    \/ \E r \in Reqs, raises \in BOOLEAN : assess_text_persist(r, raises)
    \/ \E limit \in Limits, raises \in BOOLEAN, bad \in 0..NumReqs :
          get_history(limit, raises, bad)
    \/ \E listRaises \in BOOLEAN, urlSet \in BOOLEAN, nameSet \in BOOLEAN :
          test_database(listRaises, urlSet, nameSet)

ScoreInit ==
    /\ sText \in ScoreTexts
    /\ sPc = "call"
    /\ sLocals = None
    /\ sResult = None
    /\ database = "absent"
    /\ handlerInit

ScoreNext == Score

vars == <<sText, sPc, sLocals, sResult, database, docs, pc, reqText, result,
          response, persisted, scorerCalls, createCalls, getResp, now>>

Spec == Init /\ [][Next]_vars
ScoreSpec == ScoreInit /\ [][ScoreNext]_vars

\* ---- properties of the scorer (checked under ScoreSpec) ----

\* the merged lexicon written out: stress set, anxiety set, mood set
ExpectedKeywords ==
    << kw_stress, kw_stressed, kw_overwhelmed, kw_pressure, kw_tired,
       kw_exhausted, kw_burnout, kw_workload,
       kw_anxious, kw_worry, kw_panic, kw_nervous, kw_fear, kw_uneasy,
       kw_sad, kw_down, kw_depressed, kw_hopeless, kw_insomnia, kw_sleep,
       kw_headache >>
ExpectedWeights ==
    << 200, 200, 200, 150, 100, 150, 200, 100,
       200, 150, 200, 100, 150, 100,
       150, 100, 200, 200, 150, 50, 50 >>

Occurs(k, t) == \E i \in 1..(Len(t) - Len(k) + 1) : SubSeq(t, i, i + Len(k) - 1) = k

\* the indices of the keywords occurring in t, ascending
RECURSIVE OccurringFrom(_, _)
OccurringFrom(i, t) ==
    IF i > Len(ExpectedKeywords) THEN <<>>
    ELSE IF Occurs(ExpectedKeywords[i], t) THEN <<i>> \o OccurringFrom(i + 1, t)
    ELSE OccurringFrom(i + 1, t)

RECURSIVE SumWeights(_)
SumWeights(is) == IF is = <<>> THEN 0 ELSE ExpectedWeights[Head(is)] + SumWeights(Tail(is))

Returned == sPc = "returned"

\* C1 (as stated): for "I feel so stressed and overwhelmed, I am exhausted" the
\* matched keywords are stressed, overwhelmed and exhausted, the raw score is
\* 5.5, the penalty 1.0, the score 5.5 and the label "Moderate"
C1_Original ==
    (Returned /\ sText = TextStressed) =>
        /\ sLocals.matched = <<kw_stressed, kw_overwhelmed, kw_exhausted>>
        /\ sLocals.raw = 550
        /\ RatEq(sLocals.length_penalty, <<1, 1>>)
        /\ sResult.score = 550
        /\ sResult.label = "Moderate"

\* C1 (amended): for that text the matched keywords are stress, stressed,
\* overwhelmed and exhausted ("stress" is a substring of "stressed"), the raw
\* score is 7.5, the penalty 1.0, the score 7.5 and the label "High"
C1_StressedExample ==
    (Returned /\ sText = TextStressed) =>
        /\ sLocals.matched = <<kw_stress, kw_stressed, kw_overwhelmed, kw_exhausted>>
        /\ sResult.keywords = sLocals.matched
        /\ sLocals.raw = 750
        /\ RatEq(sLocals.length_penalty, <<1, 1>>)
        /\ sResult.score = 750
        /\ sResult.label = "High"

C1_Witness == Returned /\ sText = TextStressed /\ Len(sResult.keywords) = 4

\* C2: a text whose lower-cased form contains no lexicon keyword gets score 0,
\* label "Minimal" and no keywords, whatever its length
C2_NoKeywordMinimal ==
    (Returned /\ \A i \in 1..Len(ExpectedKeywords) :
                    ~Occurs(ExpectedKeywords[i], lower(sText))) =>
        /\ sResult.score = 0
        /\ sResult.label = "Minimal"
        /\ sResult.keywords = <<>>

C2_Witness ==
    /\ Returned
    /\ sText = TextNormalDay \o Pad(MaxPads)
    /\ sResult.label = "Minimal"

\* C6: the label is decided by the returned score alone: High iff score >= 6,
\* Moderate iff 3 <= score < 6, Low iff 0 < score < 3, Minimal iff score = 0,
\* and the score is never negative
C6_LabelBands ==
    Returned =>
        /\ sResult.score >= 0
        /\ sResult.label \in {"High", "Moderate", "Low", "Minimal"}
        /\ (sResult.label = "High") <=> (sResult.score >= 600)
        /\ (sResult.label = "Moderate") <=> (sResult.score >= 300 /\ sResult.score < 600)
        /\ (sResult.label = "Low") <=> (sResult.score > 0 /\ sResult.score < 300)
        /\ (sResult.label = "Minimal") <=> (sResult.score = 0)

C6_Witness == Returned /\ sResult.score = 600 /\ sResult.label = "High"

\* C7: the length penalty is 1.0 up to length 99, strictly between 0.5 and 1.0
\* for lengths 100..198, 0.5 from length 199 on, and no shorter text has a
\* smaller penalty
C7_PenaltyShape ==
    Returned =>
        LET n == Len(sText)
            p == sLocals.length_penalty
        IN  /\ ~RatLess(p, <<1, 2>>) /\ ~RatLess(<<1, 1>>, p)
            /\ (n <= 99) => RatEq(p, <<1, 1>>)
            /\ (n >= 100 /\ n <= 198) => (RatLess(<<1, 2>>, p) /\ RatLess(p, <<1, 1>>))
            /\ (n >= 199) => RatEq(p, <<1, 2>>)
            /\ \A m \in 0..n : ~RatLess(length_penalty(m), p)

C7_Witness ==
    /\ Returned
    /\ Len(sText) = 100
    /\ RatLess(sLocals.length_penalty, <<1, 1>>)

\* C9: the keywords are exactly the lexicon keywords occurring as substrings
\* of the lower-cased text, in merged-lexicon order, none twice, and the raw
\* score is the sum of their weights, each counted once
C9_KeywordsAndRawScore ==
    Returned =>
        LET is == OccurringFrom(1, lower(sText))
        IN  /\ sResult.keywords = [j \in 1..Len(is) |-> ExpectedKeywords[is[j]]]
            /\ \A a, b \in 1..Len(sResult.keywords) :
                   sResult.keywords[a] = sResult.keywords[b] => a = b
            /\ sLocals.raw = SumWeights(is)

\* "stress" inside "stressed", "worry" occurring twice, two categories
C9_Witness ==
    /\ Returned
    /\ sText = TextStressed \o FragWorry
    /\ sResult.keywords = <<kw_stress, kw_stressed, kw_overwhelmed, kw_exhausted,
                            kw_burnout, kw_worry, kw_panic>>

\* C10: the keywords are non-empty iff the score is positive (a matched text
\* scores at least 0.25), so the label is "Minimal" iff no keyword matched
C10_MatchedIffPositive ==
    Returned =>
        /\ (sResult.keywords # <<>>) <=> (sResult.score > 0)
        /\ (sResult.keywords # <<>>) => (sResult.score >= 25)
        /\ (sResult.label = "Minimal") <=> (sResult.keywords = <<>>)

C10_Witness ==
    /\ Returned
    /\ sResult.keywords = <<kw_sleep>>
    /\ sResult.score = 25

\* ---- properties of the request handlers (checked under Spec) ----

\* C3: an accepted POST /api/assess always answers 200 with the score, label
\* and keywords the scorer gives for the text, however the persistence
\* attempt ended; the id is the one create_document returned when it
\* returned, and null on every failure path
C3_PersistenceBestEffort ==
    \A r \in Reqs :
        pc[r] = "done" =>
            /\ response[r].status = 200
            /\ LET body == response[r].body
                   pure == simple_stress_model(reqText[r], 0)
               IN  /\ body.score = pure.score
                   /\ body.label = pure.label
                   /\ body.keywords = pure.keywords
                   /\ (body.id # None) =>
                          (persisted[r].outcome = "created" /\ body.id = persisted[r].doc_id)
                   /\ (persisted[r].outcome # "created") => (body.id = None)
                   /\ (persisted[r].outcome = "created") =>
                          \E i \in 1..Len(docs) : str(docs[i]._id) = body.id

\* one text answered twice: once stored, once after create_document raised
C3_Witness ==
    \E r1, r2 \in Reqs :
        /\ pc[r1] = "done" /\ pc[r2] = "done"
        /\ reqText[r1] = reqText[r2]
        /\ persisted[r1].outcome = "created" /\ response[r1].body.id = [str |-> "1"]
        /\ persisted[r2].outcome = "raised" /\ response[r2].body.id = None
        /\ response[r1].body.score = response[r2].body.score

\* C4: a text shorter than 10 characters is rejected with a client error, and
\* neither the scorer nor create_document is ever called for it; for an
\* accepted request create_document is called only after the scorer has run
C4_RejectedBeforeScoring ==
    [][ /\ \A r \in Reqs :
              (pc'[r] # "idle" /\ Len(reqText'[r]) < 10) =>
                  /\ pc'[r] = "rejected"
                  /\ response'[r] = [status |-> 422]
                  /\ scorerCalls'[r] = 0
                  /\ createCalls'[r] = 0
        /\ \A r \in Reqs :
              (createCalls'[r] > createCalls[r]) =>
                  (scorerCalls[r] >= 1 /\ scorerCalls'[r] = scorerCalls[r])
      ]_vars

C4_Witness ==
    \E r1, r2 \in Reqs :
        /\ pc[r1] = "rejected" /\ Len(reqText[r1]) = 9
        /\ scorerCalls[r1] = 0 /\ createCalls[r1] = 0
        /\ pc[r2] = "done" /\ scorerCalls[r2] = 1 /\ createCalls[r2] = 1

\* C5: GET /api/history always answers 200; the body is empty when the store
\* is absent, the query raised or any returned object cannot be normalised,
\* and otherwise holds the returned documents in order, each with its _id
\* replaced by the string id
C5_HistoryAllOrNothing ==
    (getResp # None /\ getResp.endpoint = "history") =>
        LET ret == getResp.returned
            body == getResp.response.body
        IN  /\ getResp.response.status = 200
            /\ IF getResp.outcome # "returned" \/ \E i \in 1..Len(ret) : "nondict" \in DOMAIN ret[i]
               THEN body = <<>>
               ELSE /\ Len(body) = Len(ret)
                    /\ \A i \in 1..Len(ret) :
                          /\ DOMAIN body[i] = (DOMAIN ret[i] \ {"_id"}) \cup {"id"}
                          /\ body[i].id = [str |-> ToString(ret[i]._id.oid)]
                          /\ \A k \in DOMAIN ret[i] \ {"_id"} : body[i][k] = ret[i][k]

\* two documents came back, one of them not a dict
C5_Witness ==
    /\ getResp # None /\ getResp.endpoint = "history"
    /\ getResp.outcome = "returned"
    /\ Len(getResp.returned) = 2
    /\ \E i \in 1..2 : "nondict" \in DOMAIN getResp.returned[i]
    /\ \E i \in 1..2 : "nondict" \notin DOMAIN getResp.returned[i]
    /\ getResp.response.body = <<>>

====
